---------------------------- MODULE Spec2Model ----------------------------
(***************************************************************************)
(* Model of src/bot_chengyus.py: the ChengyuBot data loader (source        *)
(* resolution over candidate files, process_loaded_data) and its command   *)
(* and callback handlers over the loaded table.                            *)
(*                                                                         *)
(* Texts (cell values, command arguments, callback data) are sequences of  *)
(* one-character strings, so that str.upper, str.split, int() and the      *)
(* f-string formatting of callback data are computed and not assumed.      *)
(* Column names and file names are atomic strings.  Non-ASCII names of the *)
(* source are written in ASCII: "Chengyu [zh]" is the column               *)
(* 'Chengyu <two Chinese characters>', and an acute accent is written as   *)
(* an apostrophe after the vowel ("categori'a", "refra'n").                *)
(***************************************************************************)
EXTENDS Integers, Sequences, FiniteSets, TLC

VARIABLES
    fs,           \* the candidate files on disk: file name -> content or Absent
    pc,           \* position of __init__ / load_chengyus_data, or "serving"
    df,           \* self.df
    categorias,   \* self.categorias
    data_source,  \* self.data_source
    update,       \* the inbound command or callback being handled
    reply         \* the message the handler sent back

vars == <<fs, pc, df, categorias, data_source, update, reply>>

----------------------------------------------------------------------------
(* Bounds of the model *)

\* at most this many candidate files are present on disk
MaxFiles == 2

\* minimum number of parsed rows for an external candidate (len(df_test) < 10)
MinRows == 10

\* show_categories offers at most this many buttons (self.categorias[:20])
MaxButtons == 20

\* quiz needs this many rows (len(self.df) < 4) and builds this many options
QuizOptions == 4

----------------------------------------------------------------------------
(* Texts *)

\* pandas' missing value; read_csv turns an empty cell into it.  It is a
\* sequence, like every text, but no sequence of single characters.
NaN == <<"NaN">>

\* Python's None, as returned by dict.get / Series.get for a missing key
None == <<"None">>

Digits == <<"0", "1", "2", "3", "4", "5", "6", "7", "8", "9">>

IsDigit(c) == \E i \in 1..10 : Digits[i] = c

DigitVal(c) == (CHOOSE i \in 1..10 : Digits[i] = c) - 1

RECURSIVE StrNat(_)
\* str(n) for n >= 0
StrNat(n) == IF n < 10 THEN <<Digits[n + 1]>>
             ELSE StrNat(n \div 10) \o <<Digits[(n % 10) + 1]>>

\* str(n) of an int, as an f-string formats it
StrInt(n) == IF n < 0 THEN <<"-">> \o StrNat(0 - n) ELSE StrNat(n)

RECURSIVE NatVal(_)
NatVal(s) == IF s = <<>> THEN 0
             ELSE 10 * NatVal(SubSeq(s, 1, Len(s) - 1)) + DigitVal(s[Len(s)])

AllDigits(s) == Len(s) > 0 /\ \A i \in 1..Len(s) : IsDigit(s[i])

\* int(s) succeeds: an optional sign, then decimal digits
IsInt(s) ==
    /\ Len(s) > 0
    /\ IF s[1] \in {"-", "+"} THEN AllDigits(Tail(s)) ELSE AllDigits(s)

\* int(s), where IsInt(s); otherwise int() raises ValueError
PyInt(s) ==
    IF s[1] = "-" THEN 0 - NatVal(Tail(s))
    ELSE IF s[1] = "+" THEN NatVal(Tail(s))
    ELSE NatVal(s)

RECURSIVE Split(_, _)
\* s.split(sep) for a one-character sep
Split(s, sep) ==
    IF \A i \in 1..Len(s) : s[i] # sep THEN <<s>>
    ELSE LET k == CHOOSE i \in 1..Len(s) :
                     s[i] = sep /\ \A j \in 1..(i - 1) : s[j] # sep
         IN  <<SubSeq(s, 1, k - 1)>> \o Split(SubSeq(s, k + 1, Len(s)), sep)

UpperChar(c) ==
    CASE c = "h" -> "H"
      [] c = "s" -> "S"
      [] c = "k" -> "K"
      [] c = "x" -> "X"
      [] OTHER   -> c

\* s.upper()
Upper(s) == [i \in 1..Len(s) |-> UpperChar(s[i])]

----------------------------------------------------------------------------
(* Tables (pandas DataFrame): column names, row labels, rows of cells *)

\* pd.DataFrame()
EmptyFrame == [columns |-> <<>>, index |-> <<>>, data |-> <<>>]

\* a freshly parsed table: the row labels are RangeIndex 0..n-1
Frame(cols, rows) ==
    [columns |-> cols, index |-> [i \in 1..Len(rows) |-> i - 1], data |-> rows]

\* len(df)
NRows(d) == Len(d.index)

\* df.empty: some axis has length 0
IsEmpty(d) == Len(d.index) = 0 \/ Len(d.columns) = 0

\* col in df.columns
HasCol(d, c) == \E i \in 1..Len(d.columns) : d.columns[i] = c

ColPos(d, c) == CHOOSE i \in 1..Len(d.columns) : d.columns[i] = c

\* the cell of the row at position p in column c (the column exists)
Cell(d, p, c) == d.data[p][ColPos(d, c)]

\* row.get(c) of the row at position p: None when the column is missing
Get(d, p, c) == IF HasCol(d, c) THEN Cell(d, p, c) ELSE None

\* the positions 1..n as a sequence
Positions(d) == [i \in 1..NRows(d) |-> i]

\* the sub-table of the rows at the positions keep (a boolean mask keeps
\* the row labels and the row order)
Take(d, keep) ==
    [columns |-> d.columns,
     index   |-> [i \in 1..Len(keep) |-> d.index[keep[i]]],
     data    |-> [i \in 1..Len(keep) |-> d.data[keep[i]]]]

AllNaN(d, p) == \A j \in 1..Len(d.columns) : d.data[p][j] = NaN

KeepNotAllNaN(d, p) == ~AllNaN(d, p)

\* df.dropna(how='all')
DropNaAll(d) ==
    LET Keep(p) == KeepNotAllNaN(d, p)
    IN  Take(d, SelectSeq(Positions(d), Keep))

\* df.rename(columns={old: new})
Rename(d, old, new) ==
    [d EXCEPT !.columns =
        [i \in 1..Len(d.columns) |->
            IF d.columns[i] = old THEN new ELSE d.columns[i]]]

\* the position of the row labelled l (df.loc[l]); labels are unique
LocPos(d, l) == CHOOSE p \in 1..NRows(d) : d.index[p] = l

HasLabel(d, l) == \E p \in 1..NRows(d) : d.index[p] = l

\* a row as a pandas Series: its label (.name) and its cells
Row(d, p) == [name |-> d.index[p], values |-> d.data[p]]

----------------------------------------------------------------------------
(* process_loaded_data *)

\* column_mapping, in the order the dict lists it
column_mapping ==
    << <<"chengyu", "Chengyu [zh]">>,
       <<"CHENGYU", "Chengyu [zh]">>,
       <<"Chengyu", "Chengyu [zh]">>,
       <<"pinyin", "Pinyin">>,
       <<"PINYIN", "Pinyin">>,
       <<"equivalente", "Equivalente en Venezolano">>,
       <<"refran", "Equivalente en Venezolano">>,
       <<"refra'n", "Equivalente en Venezolano">>,
       <<"venezolano", "Equivalente en Venezolano">>,
       <<"categoria", "Categoria">>,
       <<"categori'a", "Categoria">>,
       <<"category", "Categoria">>,
       <<"tema", "Categoria">> >>

\* RenameIfFree without the test that the canonical name is free
RenameIfFree_Always(d, old, new) ==
    IF HasCol(d, old) THEN Rename(d, old, new) ELSE d

\* one iteration of the mapping loop
RenameIfFree(d, old, new) ==
    IF HasCol(d, old) /\ ~HasCol(d, new) THEN Rename(d, old, new) ELSE d

RECURSIVE ApplyMapping(_, _)
\* the mapping loop from entry k on
ApplyMapping(d, k) ==
    IF k > Len(column_mapping) THEN d
    ELSE ApplyMapping(RenameIfFree(d, column_mapping[k][1], column_mapping[k][2]),
                      k + 1)

categoria_cols == <<"Categoria", "Category", "Categori'a", "Tema">>

RECURSIVE UniqueFrom(_, _, _, _)
\* df[col].dropna().unique().tolist() from position p on: the values other
\* than NaN, each once, in order of first appearance
UniqueFrom(d, col, p, acc) ==
    IF p > NRows(d) THEN acc
    ELSE LET v == Cell(d, p, col)
         IN  IF v = NaN \/ (\E i \in 1..Len(acc) : acc[i] = v)
             THEN UniqueFrom(d, col, p + 1, acc)
             ELSE UniqueFrom(d, col, p + 1, Append(acc, v))

\* ExtractCategorias looking at the canonical column only
ExtractCategorias_CanonicalOnly(d, cats) ==
    IF HasCol(d, "Categoria") THEN UniqueFrom(d, "Categoria", 1, <<>>)
    ELSE cats

\* the category extraction: the first of categoria_cols that is a column
ExtractCategorias(d, cats) ==
    IF \E k \in 1..Len(categoria_cols) : HasCol(d, categoria_cols[k])
    THEN LET k == CHOOSE i \in 1..Len(categoria_cols) :
                      /\ HasCol(d, categoria_cols[i])
                      /\ \A j \in 1..(i - 1) : ~HasCol(d, categoria_cols[j])
         IN  UniqueFrom(d, categoria_cols[k], 1, <<>>)
    ELSE cats

General == <<"G", "e", "n", "e", "r", "a", "l">>

\* process_loaded_data reading the categories before the columns are renamed
process_loaded_data_ExtractFirst(d, cats) ==
    LET cleaned == DropNaAll(d)
        mapped  == ApplyMapping(cleaned, 1)
        found   == ExtractCategorias(cleaned, cats)
    IN  [df |-> mapped,
         categorias |-> IF found = <<>> THEN <<General>> ELSE found]

\* process_loaded_data on self.df = d, self.categorias = cats: the new
\* self.df and self.categorias
process_loaded_data(d, cats) ==
    LET cleaned == DropNaAll(d)
        mapped  == ApplyMapping(cleaned, 1)
        found   == ExtractCategorias(mapped, cats)
    IN  [df |-> mapped,
         categorias |-> IF found = <<>> THEN <<General>> ELSE found]

----------------------------------------------------------------------------
(* The candidate files and what the parsers make of them *)

target_file == "tabla chengyus completa.csv"

fallback_files ==
    <<"chengyus_data.csv", "tabla-chengyus-completa.csv", "chengyus.csv",
      "data.csv">>

excel_files == <<"tabla-chengyus-completa.xlsx", "chengyus.xlsx">>

\* load_specific_csv's encodings and separators, in loop order
encodings == <<"utf-8", "utf-8-sig", "latin-1", "cp1252", "iso-8859-1">>

separators == <<",", ";", "TAB">>

\* load_fallback_csv's encodings (it reads with the default separator ",")
fallback_encodings == <<"utf-8", "utf-8-sig", "latin-1">>

HSK6 == <<"H", "S", "K", "6">>

HSK7 == <<"H", "S", "K", "7">>

HSK8 == <<"H", "S", "K", "8">>

HSK9 == <<"H", "S", "K", "9">>

BlankRow(n) == [j \in 1..n |-> NaN]

\* Rows of a comma-separated UTF-8 file with the canonical header.  Six of
\* its ten rows are lines of separators only (",,,"); rows 0 and 2 carry
\* the same chengyu, the stored levels differ in case and spacing, and row
\* 6 has an empty chengyu cell.
MainTable ==
    Frame(<<"Chengyu [zh]", "Pinyin", "Categoria", "Nivel de Dificultad">>,
          << <<<<"A">>, <<"a">>, <<"X">>, HSK6>>,
             BlankRow(4),
             <<<<"A">>, <<"a">>, <<"X">>, <<"h", "s", "k", "6">>>>,
             BlankRow(4),
             <<<<"B">>, <<"b">>, <<"Y">>, <<"H", "S", "K", " ", "6">>>>,
             BlankRow(4),
             <<NaN, <<"c">>, <<"Y">>, HSK7>>,
             BlankRow(4), BlankRow(4), BlankRow(4) >>)

\* Rows of a comma-separated UTF-8 file saved with a byte order mark, with
\* alias headers; three of its ten rows are not blank.
BomTable ==
    Frame(<<"chengyu", "pinyin", "PINYIN", "Category">>,
          << <<<<"C">>, <<"c">>, <<"c">>, <<"X">>>>,
             <<<<"D">>, <<"d">>, <<"d">>, NaN>>,
             BlankRow(4), BlankRow(4), BlankRow(4), BlankRow(4),
             <<<<"E">>, <<"e">>, NaN, <<"Z">>>>,
             BlankRow(4), BlankRow(4), BlankRow(4) >>)

\* Rows of a semicolon-separated Latin-1 file (accented header
\* 'categori'a'; its texts contain commas); four of its ten rows are not
\* blank.
SemiTable ==
    Frame(<<"Chengyu", "Pinyin", "categori'a", "Nivel de Dificultad">>,
          << BlankRow(4),
             <<<<"F">>, <<"f">>, <<"X">>, HSK6>>,
             <<<<"G">>, <<"g">>, <<"Y">>, HSK7>>,
             BlankRow(4), BlankRow(4),
             <<<<"H">>, <<"h">>, NaN, HSK6>>,
             BlankRow(4), BlankRow(4), BlankRow(4),
             <<<<"I">>, <<"i">>, <<"X">>, HSK8>> >>)

\* a comma-separated UTF-8 file of three rows
ShortTable ==
    Frame(<<"Chengyu [zh]", "Pinyin", "Categoria", "Nivel de Dificultad">>,
          << <<<<"J">>, <<"j">>, <<"X">>, HSK6>>,
             <<<<"K">>, <<"k">>, <<"X">>, HSK6>>,
             <<<<"L">>, <<"l">>, <<"Y">>, HSK7>> >>)

\* a comma-separated UTF-8 file: the header, then ten lines of separators
BlankTable ==
    Frame(<<"Chengyu [zh]", "Pinyin", "Categoria", "Nivel de Dificultad">>,
          [i \in 1..MinRows |-> BlankRow(4)])

\* the first sheet of a workbook without a chengyu column
SheetTable ==
    Frame(<<"Pinyin", "Tema">>,
          << <<<<"m">>, <<"X">>>>,
             BlankRow(2), BlankRow(2),
             <<<<"n">>, <<"Y">>>>,
             <<<<"o">>, <<"X">>>>,
             BlankRow(2), BlankRow(2), BlankRow(2),
             <<<<"p">>, NaN>>,
             BlankRow(2) >>)

Absent == "absent"

\* what a .csv candidate may hold
CsvContents == {"main", "bom", "semi", "short", "blank"}

\* what an .xlsx candidate may hold
ExcelContents == {"sheet", "corrupt"}

\* the bytes of a csv content: its encoding, its separator, its rows
CsvFile(c) ==
    CASE c = "main"  -> [enc |-> "utf-8", sep |-> ",", table |-> MainTable]
      [] c = "bom"   -> [enc |-> "utf-8-sig", sep |-> ",", table |-> BomTable]
      [] c = "semi"  -> [enc |-> "latin-1", sep |-> ";", table |-> SemiTable]
      [] c = "short" -> [enc |-> "utf-8", sep |-> ",", table |-> ShortTable]
      [] c = "blank" -> [enc |-> "utf-8", sep |-> ",", table |-> BlankTable]

\* a parse that raised
Raised == [ok |-> FALSE, df |-> EmptyFrame]

Parsed(t) == [ok |-> TRUE, df |-> t]

\* The table whose first column name is not read as written: a byte order
\* mark read as text, or UTF-8 bytes read as Latin-1.
Mangled(t) ==
    [t EXCEPT !.columns = [i \in 1..Len(t.columns) |->
                              IF i = 1 THEN "?" ELSE t.columns[i]]]

\* A file read with a separator it does not use: one column holding each
\* line whole, so that no row is blank.
OneColumn(t) ==
    Frame(<<"(header line)">>, [i \in 1..NRows(t) |-> <<<<"(line)">>>>])

\* pd.read_csv(file, encoding=encoding, sep=sep) of a file holding c
read_csv(c, encoding, sep) ==
    LET f == CsvFile(c) IN
    IF f.enc = "latin-1" /\ encoding \in {"utf-8", "utf-8-sig"}
    THEN Raised    \* UnicodeDecodeError on an accented byte
    ELSE IF f.enc # "latin-1" /\ encoding = "cp1252"
    THEN Raised    \* UnicodeDecodeError: a byte cp1252 does not define
    ELSE IF sep # f.sep
    THEN (IF sep = "," THEN Raised    \* ParserError: commas in some lines
          ELSE Parsed(OneColumn(f.table)))
    ELSE IF (f.enc = "utf-8-sig" /\ encoding # "utf-8-sig")
            \/ (f.enc = "utf-8" /\ encoding \in {"latin-1", "iso-8859-1"})
    THEN Parsed(Mangled(f.table))
    ELSE Parsed(f.table)

\* pd.read_excel(file, engine='openpyxl') of a file holding c
read_excel(c) == IF c = "sheet" THEN Parsed(SheetTable) ELSE Raised

----------------------------------------------------------------------------
(* __init__ and load_chengyus_data *)

FileNames ==
    {target_file} \cup {fallback_files[i] : i \in 1..Len(fallback_files)}
                  \cup {excel_files[i] : i \in 1..Len(excel_files)}

IsExcel(name) == \E i \in 1..Len(excel_files) : excel_files[i] = name

\* the directories the bot may be started in: at most MaxFiles of the
\* candidate files are present, each holding a content of its kind
FileSystems ==
    UNION { { [n \in FileNames |-> IF n \in P THEN a[n] ELSE Absent] :
                a \in {b \in [P -> CsvContents \cup ExcelContents] :
                          \A n \in P : IF IsExcel(n) THEN b[n] \in ExcelContents
                                       ELSE b[n] \in CsvContents} } :
            P \in {Q \in SUBSET FileNames : Cardinality(Q) <= MaxFiles} }

\* os.path.exists(name)
Exists(name) == fs[name] # Absent

\* a position of the loader: tier, file, encoding and separator in turn
At(tier, f, e, s) == [at |-> tier, f |-> f, e |-> e, s |-> s]

Serving == At("serving", 1, 1, 1)

NoUpdate == [cmd |-> "none"]

NoReply == [kind |-> "none"]

\* the embedded_data list of load_embedded_data, texts abbreviated: row k
\* holds chengyu "Ek", and its category and level are the source's
embedded_data ==
    Frame(<<"Chengyu [zh]", "Pinyin", "Traduccion Literal",
            "Significado Figurativo", "Equivalente en Venezolano",
            "Categoria", "Nivel de Dificultad", "Frase de Ejemplo">>,
          << <<<<"E", "1">>, <<"p">>, <<"t">>, <<"s">>, <<"v">>,
               <<"C", "1">>, HSK6, <<"f">>>>,
             <<<<"E", "2">>, <<"p">>, <<"t">>, <<"s">>, <<"v">>,
               <<"C", "2">>, HSK6, <<"f">>>>,
             <<<<"E", "3">>, <<"p">>, <<"t">>, <<"s">>, <<"v">>,
               <<"C", "3">>, HSK7, <<"f">>>>,
             <<<<"E", "4">>, <<"p">>, <<"t">>, <<"s">>, <<"v">>,
               <<"C", "4">>, HSK7, <<"f">>>>,
             <<<<"E", "5">>, <<"p">>, <<"t">>, <<"s">>, <<"v">>,
               <<"C", "5">>, HSK8, <<"f">>>> >>)

chengyu_cols == <<"Chengyu [zh]", "Chengyu", "chengyu", "CHENGYU">>

\* the essential_found loop of load_specific_csv
EssentialFound(t) == \E i \in 1..Len(chengyu_cols) : HasCol(t, chengyu_cols[i])

\* load_specific_csv keeps the parsed table df_test (lines 71 to 87)
SpecificAccepts(t) == ~IsEmpty(t) /\ ~(NRows(t) < MinRows) /\ EssentialFound(t)

\* load_fallback_csv and load_from_excel keep the parsed table df_test
FallbackAccepts(t) == ~IsEmpty(t) /\ NRows(t) >= MinRows

\* self.df = df_test; self.process_loaded_data(); return True, and the
\* data_source assignment of load_chengyus_data that follows
Accept(t, source) ==
    LET p == process_loaded_data(t, categorias)
    IN  /\ df' = p.df
        /\ categorias' = p.categorias
        /\ data_source' = source
        /\ pc' = Serving

Reject(next) ==
    /\ pc' = next
    /\ UNCHANGED <<df, categorias, data_source>>

\* AfterSpecific with the separator loop left after its first pass
AfterSpecific_FirstSeparatorOnly ==
    IF pc.e < Len(encodings) THEN At("specific", 1, pc.e + 1, 1)
    ELSE At("fallback", 1, 1, 1)

\* where load_specific_csv goes after a candidate it did not keep
AfterSpecific ==
    IF pc.s < Len(separators) THEN At("specific", 1, pc.e, pc.s + 1)
    ELSE IF pc.e < Len(encodings) THEN At("specific", 1, pc.e + 1, 1)
    ELSE At("fallback", 1, 1, 1)

\* where load_fallback_csv goes after a file it did not find
AfterFallbackFile ==
    IF pc.f < Len(fallback_files) THEN At("fallback", pc.f + 1, 1, 1)
    ELSE At("excel", 1, 1, 1)

\* where load_fallback_csv goes after a candidate it did not keep
AfterFallback ==
    IF pc.e < Len(fallback_encodings) THEN At("fallback", pc.f, pc.e + 1, 1)
    ELSE AfterFallbackFile

\* where load_from_excel goes after a file it did not keep
AfterExcel ==
    IF pc.f < Len(excel_files) THEN At("excel", pc.f + 1, 1, 1)
    ELSE At("embedded", 1, 1, 1)

\* load_specific_csv: the existence test, then one pass of the
\* encoding and separator loops
load_specific_csv ==
    /\ pc.at = "specific"
    /\ IF ~Exists(target_file)
       THEN Reject(At("fallback", 1, 1, 1))
       ELSE LET r == read_csv(fs[target_file], encodings[pc.e], separators[pc.s])
            IN  IF r.ok /\ SpecificAccepts(r.df)
                THEN Accept(r.df, "CSV especi'fico")
                ELSE Reject(AfterSpecific)
    /\ UNCHANGED <<fs, update, reply>>

\* load_fallback_csv: one pass of the file and encoding loops
load_fallback_csv ==
    /\ pc.at = "fallback"
    /\ IF ~Exists(fallback_files[pc.f])
       THEN Reject(AfterFallbackFile)
       ELSE LET r == read_csv(fs[fallback_files[pc.f]],
                              fallback_encodings[pc.e], ",")
            IN  IF r.ok /\ FallbackAccepts(r.df)
                THEN Accept(r.df, "CSV alternativo")
                ELSE Reject(AfterFallback)
    /\ UNCHANGED <<fs, update, reply>>

\* load_from_excel: one pass of the file loop
load_from_excel ==
    /\ pc.at = "excel"
    /\ IF ~Exists(excel_files[pc.f])
       THEN Reject(AfterExcel)
       ELSE LET r == read_excel(fs[excel_files[pc.f]])
            IN  IF r.ok /\ FallbackAccepts(r.df)
                THEN Accept(r.df, "Excel backup")
                ELSE Reject(AfterExcel)
    /\ UNCHANGED <<fs, update, reply>>

\* load_embedded_data, reached when no external candidate was kept
load_embedded_data ==
    /\ pc.at = "embedded"
    /\ Accept(embedded_data, "embebidos")
    /\ UNCHANGED <<fs, update, reply>>

----------------------------------------------------------------------------
(* Command and callback handlers *)

\* the day numbers tried by /dia: -2..MaxDay
MaxDay == 11

\* callback indexes tried by category_handler: -MaxCategory-1..MaxCategory
MaxCategory == 5

NonEmpty(s) == s # <<>>

\* context.args: the words of the text after the command
context_args(text) == SelectSeq(Split(text, " "), NonEmpty)

\* Python's == on two cell values: NaN equals nothing, None equals None
PyEq(a, b) == a # NaN /\ b # NaN /\ a = b

\* df.iloc[i], which counts a negative i from the end
ILoc(d, i) == IF i < 0 THEN Row(d, NRows(d) + i + 1) ELSE Row(d, i + 1)

\* lst[i] of a Python list, where -len <= i < len
ListGet(lst, i) == IF i < 0 THEN lst[Len(lst) + i + 1] ELSE lst[i + 1]

\* the positions of df[df[col] == value]
Matching(d, col, value) ==
    {p \in 1..NRows(d) : PyEq(Cell(d, p, col), value)}

Unavailable == [kind |-> "unavailable"]

\* total_chengyus of start and help_command
total_chengyus == IF ~IsEmpty(df) THEN NRows(df) ELSE 0

\* One update is handled at a time: the handlers of commands start from
\* the idle bot.
Idle == pc = Serving /\ update = NoUpdate

\* the handler takes the update u and sends the reply r
Serve(u, r) ==
    /\ update' = u
    /\ reply' = r
    /\ UNCHANGED <<fs, pc, df, categorias, data_source>>

\* /start
start ==
    /\ Idle
    /\ Serve([cmd |-> "start"], [kind |-> "welcome", total |-> total_chengyus])

\* /ayuda
help_command ==
    /\ Idle
    /\ Serve([cmd |-> "ayuda"], [kind |-> "help", total |-> total_chengyus])

\* /chengyu
random_chengyu ==
    /\ Idle
    /\ IF IsEmpty(df)
       THEN Serve([cmd |-> "chengyu"], Unavailable)
       ELSE \E p \in 1..NRows(df) :
               Serve([cmd |-> "chengyu"],
                     [kind |-> "chengyu", row |-> Row(df, p)])

\* the texts a user sends after /dia
DayTexts ==
    {<<>>, <<"x">>, <<"+", "1">>, <<"1", " ", "2">>}
        \cup {StrInt(n) : n \in (0 - 2)..MaxDay}

\* DayInRange with the lower bound off by one
DayInRange_FromZero(day, n) == 0 <= day /\ day <= n

\* the range test of daily_chengyu
DayInRange(day, n) == 1 <= day /\ day <= n

\* the reply of daily_chengyu to context.args = args
daily_reply(d, args) ==
    IF IsEmpty(d) THEN Unavailable
    ELSE IF args = <<>> THEN [kind |-> "usage", bound |-> NRows(d)]
    ELSE IF ~IsInt(args[1]) THEN [kind |-> "usage", bound |-> NRows(d)]
    ELSE LET day == PyInt(args[1])
         IN  IF DayInRange(day, NRows(d))
             THEN [kind |-> "chengyu", row |-> ILoc(d, day - 1)]
             ELSE [kind |-> "day_out_of_range", bound |-> NRows(d)]

\* /dia [numero]
daily_chengyu ==
    /\ Idle
    /\ \E text \in DayTexts :
          Serve([cmd |-> "dia", text |-> text],
                daily_reply(df, context_args(text)))

CatPrefix == <<"c", "a", "t", "_">>

Min(a, b) == IF a < b THEN a ELSE b

\* the keyboard of show_categories: one button per category, the first
\* MaxButtons of them
categories_keyboard(cats) ==
    [i \in 1..Min(Len(cats), MaxButtons) |->
        [text |-> cats[i], callback_data |-> CatPrefix \o StrInt(i - 1)]]

\* /categorias
show_categories ==
    /\ Idle
    /\ IF categorias = <<>>
       THEN Serve([cmd |-> "categorias"], [kind |-> "no_categories"])
       ELSE Serve([cmd |-> "categorias"],
                  [kind |-> "categories",
                   keyboard |-> categories_keyboard(categorias)])

\* the callback data matching ^cat_ that a client sends
CategoryData ==
    {CatPrefix \o StrInt(i) : i \in (0 - MaxCategory - 1)..MaxCategory}
        \cup {CatPrefix \o <<"x">>}

CategoryError == [kind |-> "error", of |-> "categoria"]

\* the replies category_handler may send to callback data: the sampled
\* row is any row of the filtered table
category_replies(d, cats, data) ==
    LET parts == Split(data, "_") IN
    IF Len(parts) < 2 \/ ~IsInt(parts[2]) THEN {CategoryError}
    ELSE LET category_index == PyInt(parts[2]) IN
         IF category_index < Len(cats)
         THEN IF category_index < 0 - Len(cats) THEN {CategoryError}
              ELSE IF ~HasCol(d, "Categoria") THEN {CategoryError}
              ELSE LET category == ListGet(cats, category_index)
                       filtered == Matching(d, "Categoria", category)
                   IN  IF filtered # {}
                       THEN {[kind |-> "category", category |-> category,
                              row |-> Row(d, p)] : p \in filtered}
                       ELSE {[kind |-> "empty_category"]}
         ELSE {[kind |-> "invalid_category"]}

\* callback cat_<i>
category_handler ==
    /\ Idle
    /\ \E data \in CategoryData :
          \E r \in category_replies(df, categorias, data) :
             Serve([cmd |-> "cat", data |-> data], r)

valid_levels == {HSK6, HSK7, HSK8, HSK9}

\* the texts a user sends after /hsk
LevelTexts ==
    {<<>>, HSK6, <<"h", "s", "k", "6">>, <<"H", "S", "K", " ", "6">>,
     HSK7, <<"h", "s", "k", "7">>, HSK9, <<"x">>}

LevelError == [kind |-> "error", of |-> "hsk"]

\* the replies hsk_filter may send to context.args = args
hsk_replies(d, args) ==
    IF IsEmpty(d) THEN {Unavailable}
    ELSE IF args = <<>> THEN {[kind |-> "levels_info"]}
    ELSE LET level == Upper(args[1]) IN
         IF level \in valid_levels
         THEN IF ~HasCol(d, "Nivel de Dificultad") THEN {LevelError}
              ELSE LET filtered == Matching(d, "Nivel de Dificultad", level)
                   IN  IF filtered # {}
                       THEN {[kind |-> "level", level |-> level,
                              row |-> Row(d, p)] : p \in filtered}
                       ELSE {[kind |-> "no_level", level |-> level]}
         ELSE {[kind |-> "invalid_level"]}

\* /hsk [nivel]
hsk_filter ==
    /\ Idle
    /\ \E text \in LevelTexts :
          \E r \in hsk_replies(df, context_args(text)) :
             Serve([cmd |-> "hsk", text |-> text], r)

AnsPrefix == <<"a", "n", "s">>

\* str(None), as an f-string formats it
NoneText == <<"N", "o", "n", "e">>

\* The correct_index loop of quiz, as the f-string then formats its result:
\* the first position, counted from 0, of an option whose chengyu equals
\* that of the row at position c, or None when the loop finds no such
\* option.  options lists row positions of d.
correct_index(d, options, c) ==
    LET Same(i) == PyEq(Get(d, options[i], "Chengyu [zh]"),
                        Get(d, c, "Chengyu [zh]"))
    IN  IF \E i \in 1..Len(options) : Same(i)
        THEN StrInt((CHOOSE i \in 1..Len(options) :
                        Same(i) /\ \A j \in 1..(i - 1) : ~Same(j)) - 1)
        ELSE NoneText

\* f"ans_{i}_{correct_index}_{correct.name}"
answer_data(i, cidx, name) ==
    AnsPrefix \o <<"_">> \o StrInt(i) \o <<"_">> \o cidx \o <<"_">> \o StrInt(name)

\* the rows quiz samples its wrong options from: df[df.index != correct.name]
OtherRows(d, c) == {p \in 1..NRows(d) : d.index[p] # d.index[c]}

\* sample(3) of those rows: three of them, without replacement
WrongSamples(d, c) ==
    {W \in SUBSET OtherRows(d, c) : Cardinality(W) = QuizOptions - 1}

\* random.shuffle of [correct] + wrong_options: every order of the four
Shuffles(c, W) ==
    {o \in [1..QuizOptions -> {c} \cup W] :
        \A i, j \in 1..QuizOptions : o[i] = o[j] => i = j}

\* the message of quiz for the correct row at position c and the shuffled
\* options: the prompt row, the rows behind the buttons (by label) and the
\* callback data of the buttons
quiz_message(d, c, options) ==
    [kind |-> "quiz",
     correct |-> Row(d, c),
     options |-> [i \in 1..Len(options) |-> d.index[options[i]]],
     keyboard |-> [i \in 1..Len(options) |->
                     answer_data(i - 1, correct_index(d, options, c),
                                 d.index[c])]]

\* quiz drawing its options by reordering self.df in place
quiz_ShufflesTable ==
    /\ Idle
    /\ NRows(df) >= QuizOptions
    /\ \E c \in 1..NRows(df) :
          /\ df' = Take(df, <<c>> \o SelectSeq(Positions(df), LAMBDA p : p # c))
          /\ update' = [cmd |-> "quiz"]
          /\ reply' = quiz_message(df', 1, <<1, 2, 3, 4>>)
    /\ UNCHANGED <<fs, pc, categorias, data_source>>

\* /quiz
quiz ==
    /\ Idle
    /\ IF IsEmpty(df) \/ NRows(df) < QuizOptions
       THEN Serve([cmd |-> "quiz"], [kind |-> "quiz_unavailable"])
       ELSE \E c \in 1..NRows(df) :
               \E W \in WrongSamples(df, c) :
                  \E options \in Shuffles(c, W) :
                     Serve([cmd |-> "quiz"], quiz_message(df, c, options))

AnswerError == [kind |-> "error", of |-> "respuesta"]

\* the reply of answer_handler to callback data
answer_reply(d, data) ==
    LET parts == Split(data, "_") IN
    IF Len(parts) < 4 \/ ~IsInt(parts[2]) \/ ~IsInt(parts[3]) \/ ~IsInt(parts[4])
    THEN AnswerError
    ELSE LET selected_idx    == PyInt(parts[2])
             correct_idx     == PyInt(parts[3])
             correct_row_idx == PyInt(parts[4])
         IN  IF ~HasLabel(d, correct_row_idx) THEN AnswerError
             ELSE [kind |-> "answer",
                   is_correct |-> (selected_idx = correct_idx),
                   row |-> Row(d, LocPos(d, correct_row_idx))]

\* callback ans_<i>_<correct>_<row>: a button of the quiz message is pressed
answer_handler ==
    /\ pc = Serving
    /\ reply.kind = "quiz"
    /\ \E i \in 1..Len(reply.keyboard) :
          /\ update' = [cmd |-> "ans", data |-> reply.keyboard[i]]
          /\ reply' = answer_reply(df, reply.keyboard[i])
    /\ UNCHANGED <<fs, pc, df, categorias, data_source>>

\* application.run_polling: the reply is delivered and the bot waits for
\* the next update
run_polling ==
    /\ pc = Serving
    /\ update # NoUpdate
    /\ update' = NoUpdate
    /\ reply' = NoReply
    /\ UNCHANGED <<fs, pc, df, categorias, data_source>>

\* ChengyuBot.__init__ up to the call of load_chengyus_data
Init ==
    /\ fs \in FileSystems
    /\ pc = At("specific", 1, 1, 1)
    /\ df = EmptyFrame
    /\ categorias = <<>>
    /\ data_source = "ninguno"
    /\ update = NoUpdate
    /\ reply = NoReply

Load ==
    \/ load_specific_csv
    \/ load_fallback_csv
    \/ load_from_excel
    \/ load_embedded_data

Commands ==
    \/ start
    \/ help_command
    \/ random_chengyu
    \/ daily_chengyu
    \/ show_categories
    \/ category_handler
    \/ hsk_filter
    \/ quiz
    \/ answer_handler
    \/ run_polling

Next == Load \/ Commands

Spec == Init /\ [][Next]_vars

----------------------------------------------------------------------------
(* Source resolution: claims C1 to C3 *)

NSpecific == Len(encodings) * Len(separators)

NFallback == Len(fallback_files) * Len(fallback_encodings)

\* the number of external candidates
NCandidates == NSpecific + NFallback + Len(excel_files)

\* The k-th external candidate of the priority list: the specific CSV under
\* each encoding and, within it, each separator; then each fallback CSV
\* under each encoding; then each Excel file.
CandidateAt(k) ==
    IF k <= NSpecific
    THEN At("specific", 1, ((k - 1) \div Len(separators)) + 1,
            ((k - 1) % Len(separators)) + 1)
    ELSE IF k <= NSpecific + NFallback
    THEN At("fallback", ((k - NSpecific - 1) \div Len(fallback_encodings)) + 1,
            ((k - NSpecific - 1) % Len(fallback_encodings)) + 1, 1)
    ELSE At("excel", k - NSpecific - NFallback, 1, 1)

CandidateFile(c) ==
    IF c.at = "specific" THEN target_file
    ELSE IF c.at = "fallback" THEN fallback_files[c.f]
    ELSE excel_files[c.f]

\* what parsing candidate c yields in the directory d
CandidateRead(d, c) ==
    IF d[CandidateFile(c)] = Absent THEN Raised
    ELSE IF c.at = "specific"
    THEN read_csv(d[target_file], encodings[c.e], separators[c.s])
    ELSE IF c.at = "fallback"
    THEN read_csv(d[fallback_files[c.f]], fallback_encodings[c.e], ",")
    ELSE read_excel(d[excel_files[c.f]])

\* candidate c passes the acceptance checks of its tier
Acceptable(d, c) ==
    LET r == CandidateRead(d, c)
    IN  /\ r.ok
        /\ IF c.at = "specific" THEN SpecificAccepts(r.df)
           ELSE FallbackAccepts(r.df)

\* the first acceptable candidate of the priority list, 0 if there is none
FirstAcceptable(d) ==
    IF \E k \in 1..NCandidates : Acceptable(d, CandidateAt(k))
    THEN CHOOSE k \in 1..NCandidates :
            /\ Acceptable(d, CandidateAt(k))
            /\ \A j \in 1..(k - 1) : ~Acceptable(d, CandidateAt(j))
    ELSE 0

TierSource(c) ==
    IF c.at = "specific" THEN "CSV especi'fico"
    ELSE IF c.at = "fallback" THEN "CSV alternativo"
    ELSE "Excel backup"

\* the place of a loader position in the priority list
Place(p) ==
    CHOOSE k \in 1..(NCandidates + 1) :
        IF p.at = "embedded" THEN k = NCandidates + 1 ELSE CandidateAt(k) = p

\* C1: the loader tries the candidates in the order specific CSV (encodings,
\* then separators), fallback CSVs (files, then encodings), Excel files: every
\* candidate before the loader's position was rejected and nothing is loaded
\* yet; once it has returned, the table is the processed parse of the first
\* acceptable candidate, whatever later candidates hold, and it is the
\* embedded table only if every external candidate was rejected.
C1_FirstAcceptableWins ==
    IF pc = Serving
    THEN LET k == FirstAcceptable(fs) IN
         IF k = 0
         THEN /\ data_source = "embebidos"
              /\ df = process_loaded_data(embedded_data, <<>>).df
         ELSE /\ data_source = TierSource(CandidateAt(k))
              /\ df = process_loaded_data(
                          CandidateRead(fs, CandidateAt(k)).df, <<>>).df
    ELSE /\ \A j \in 1..(Place(pc) - 1) : ~Acceptable(fs, CandidateAt(j))
         /\ df = EmptyFrame
         /\ data_source = "ninguno"

\* C1 witness: a candidate was loaded although a candidate of a later tier,
\* holding another table, is acceptable too
C1_Witness ==
    /\ pc = Serving
    /\ FirstAcceptable(fs) > 0
    /\ \E j \in (FirstAcceptable(fs) + 1)..NCandidates :
          /\ Acceptable(fs, CandidateAt(j))
          /\ CandidateAt(j).at # CandidateAt(FirstAcceptable(fs)).at
          /\ CandidateRead(fs, CandidateAt(j)).df
                # CandidateRead(fs, CandidateAt(FirstAcceptable(fs))).df

\* C2: after load_chengyus_data has returned the table has at least one
\* record, whatever the candidate files hold.
C2_NonEmptyAfterLoad == pc = Serving => NRows(df) >= 1

\* C3: an accepted external candidate gives a table of at least 10 records
\* whose columns include the chengyu column and the pinyin or the
\* equivalent column.
C3_AcceptedIsValid ==
    (pc = Serving /\ data_source # "embebidos") =>
        /\ NRows(df) >= MinRows
        /\ HasCol(df, "Chengyu [zh]")
        /\ HasCol(df, "Pinyin") \/ HasCol(df, "Equivalente en Venezolano")

----------------------------------------------------------------------------
(* Queries: claims C4, C8, C9 *)

\* C4: on a table of at least one row, /dia n answers with the row at load
\* position n for every n in 1..len(df), and for every other integer n with
\* the range message carrying the bound len(df).
C4_ByDay ==
    \A n \in (0 - 2)..MaxDay :
        (update = [cmd |-> "dia", text |-> StrInt(n)] /\ NRows(df) >= 1) =>
            IF 1 <= n /\ n <= NRows(df)
            THEN reply = [kind |-> "chengyu", row |-> Row(df, n)]
            ELSE reply = [kind |-> "day_out_of_range", bound |-> NRows(df)]

\* C4 witness: /dia len(df) has answered with the last row of a table whose
\* row labels have gaps
C4_Witness ==
    /\ NRows(df) >= 2
    /\ update = [cmd |-> "dia", text |-> StrInt(NRows(df))]
    /\ reply = [kind |-> "chengyu", row |-> Row(df, NRows(df))]
    /\ df.index[NRows(df)] # NRows(df) - 1

IsSpace(c) == c = " "

NotSpace(c) == ~IsSpace(c)

\* A level text upper-cased and stripped of its whitespace: the
\* normalization C8 speaks of (hsk_filter itself applies Upper to the first
\* word of the text and nothing to the stored levels).
NormalLevel(s) == Upper(SelectSeq(s, NotSpace))

\* the rows whose stored level normalizes to the level
LevelRows(d, level) ==
    {p \in 1..NRows(d) :
        /\ Cell(d, p, "Nivel de Dificultad") # NaN
        /\ NormalLevel(Cell(d, p, "Nivel de Dificultad")) = level}

\* C8: /hsk with a text that normalizes to HSK6 ("hsk6", "HSK 6", "HSK6")
\* answers with a row whose stored level normalizes to HSK6, and with the
\* no-such-level message only if there is no such row.
C8_LevelInsensitive ==
    (/\ update.cmd = "hsk"
     /\ NormalLevel(update.text) = HSK6
     /\ ~IsEmpty(df)
     /\ HasCol(df, "Nivel de Dificultad")) =>
        IF LevelRows(df, HSK6) # {}
        THEN /\ reply.kind = "level"
             /\ \E p \in LevelRows(df, HSK6) : reply.row = Row(df, p)
        ELSE reply.kind = "no_level"

\* C9: on a table with the category column, the callback cat_<i> answers
\* with a row only if i is in 0..len(categorias)-1 and the row's category is
\* categorias[i]; for any other i, and for a category without rows, it
\* answers with a corrective message and no row.
C9_ByCategory ==
    \A i \in (0 - MaxCategory - 1)..MaxCategory :
        (/\ update = [cmd |-> "cat", data |-> CatPrefix \o StrInt(i)]
         /\ HasCol(df, "Categoria")) =>
            IF /\ 0 <= i /\ i < Len(categorias)
               /\ Matching(df, "Categoria", categorias[i + 1]) # {}
            THEN /\ reply.kind = "category"
                 /\ reply.category = categorias[i + 1]
                 /\ \E p \in Matching(df, "Categoria", categorias[i + 1]) :
                       reply.row = Row(df, p)
            ELSE reply.kind \in {"empty_category", "invalid_category"}

----------------------------------------------------------------------------
(* Quiz: claims C5 to C7 *)

\* the correct position a button's callback data carries, as text
TokenCorrect(data) == Split(data, "_")[3]

\* the correct row identifier a button's callback data carries, as text
TokenRow(data) == Split(data, "_")[4]

\* C5: on a table of at least 4 rows /quiz builds exactly 4 options, pairwise
\* distinct rows, and all 4 buttons carry one correct position in 0..3; on a
\* smaller table it builds no question and answers that the quiz is
\* unavailable.
C5_QuizWellFormed ==
    update.cmd = "quiz" =>
        IF NRows(df) >= QuizOptions
        THEN /\ reply.kind = "quiz"
             /\ Len(reply.options) = QuizOptions
             /\ Len(reply.keyboard) = QuizOptions
             /\ \A i, j \in 1..QuizOptions :
                   reply.options[i] = reply.options[j] => i = j
             /\ \E cp \in 0..(QuizOptions - 1) :
                   \A i \in 1..QuizOptions :
                      TokenCorrect(reply.keyboard[i]) = StrInt(cp)
        ELSE reply.kind = "quiz_unavailable"

\* C6: in every question the correct position carried by the buttons is the
\* shuffled position of the chosen correct row: the option at that
\* position is the row whose identifier the buttons carry.
C6_CorrectPositionIsCorrectRow ==
    reply.kind = "quiz" =>
        \A i \in 1..Len(reply.keyboard) :
            /\ IsInt(TokenCorrect(reply.keyboard[i]))
            /\ IsInt(TokenRow(reply.keyboard[i]))
            /\ PyInt(TokenRow(reply.keyboard[i])) = reply.correct.name
            /\ reply.options[PyInt(TokenCorrect(reply.keyboard[i])) + 1]
                  = reply.correct.name

\* C7: pressing any button of a question answers with the chosen correct
\* row, re-fetched by its identifier, and reports correct exactly when the
\* button's position is the correct position the button carries.
C7_Verify ==
    [][(reply.kind = "quiz" /\ update'.cmd = "ans") =>
          \E i \in 1..Len(reply.keyboard) :
             /\ update'.data = reply.keyboard[i]
             /\ reply'.kind = "answer"
             /\ reply'.row = reply.correct
             /\ reply'.is_correct
                   = (StrInt(i - 1) = TokenCorrect(reply.keyboard[i]))]_vars

----------------------------------------------------------------------------
(* The table after load: claim C10 *)

\* C10: the table is built by the one step that ends the load, before any
\* update is handled, and no handler changes it afterward: every step of the
\* serving bot leaves the table, its row order and the category list as they
\* are, and every handled update finds the load finished.
C10_TableImmutable ==
    [][/\ pc = Serving => (pc' = Serving /\ df' = df /\ categorias' = categorias)
       /\ (update' # update \/ reply' # reply) => pc = Serving
       /\ (df' # df \/ categorias' # categorias) => pc' = Serving]_vars

\* C10 witness: a question was built and one of its buttons pressed, on a
\* table loaded from a file
C10_Witness ==
    /\ pc = Serving
    /\ data_source # "embebidos"
    /\ update.cmd = "ans"
    /\ reply.kind = "answer"

----------------------------------------------------------------------------
(* process_loaded_data over the tables a loader may hand to it *)

MaxCols == 3

MaxRawRows == 2

\* the header names of the accepted file: the canonical category column,
\* its aliases 'categoria' and 'tema' of column_mapping, the variants
\* 'Category' and 'Tema' of categoria_cols, and an alias of the term column
HeaderNames == {"Categoria", "categoria", "tema", "Category", "Tema", "chengyu"}

\* the headers of up to MaxCols columns; read_csv makes the names of one
\* table distinct
Headers ==
    UNION { {h \in [1..n -> HeaderNames] : \A i, j \in 1..n : h[i] = h[j] => i = j} :
            n \in 1..MaxCols }

\* a row of n cells: a in the first column, b in the others
RawRow(n, a, b) == [j \in 1..n |-> IF j = 1 THEN a ELSE b]

RowKinds(n) ==
    {RawRow(n, a, b) : a, b \in {<<"X">>, NaN}} \cup {RawRow(n, <<"Y">>, <<"Y">>)}

\* the rows of the file that are not lines of separators only, up to
\* MaxRawRows of them ...
RawRows(n) == UNION { [1..k -> RowKinds(n)] : k \in 0..MaxRawRows }

\* ... followed by lines of separators only, up to the MinRows rows the
\* loaders ask for
Padded(n, rows) == rows \o [i \in 1..(MinRows - Len(rows)) |-> BlankRow(n)]

\* the table load_fallback_csv reads from a file with the header h and the
\* rows given (not empty, MinRows rows: it is accepted)
AcceptedTable(h, rows) == Frame(h, Padded(Len(h), rows))

\* the loader has accepted a table and assigned it: self.df = df_test
NormInit ==
    /\ fs = [n \in FileNames |-> Absent]
    /\ pc = At("assigned", 1, 1, 1)
    /\ \E h \in Headers :
          \E rows \in RawRows(Len(h)) : df = AcceptedTable(h, rows)
    /\ categorias = <<>>
    /\ data_source = "ninguno"
    /\ update = NoUpdate
    /\ reply = NoReply

\* self.process_loaded_data() on the state it finds
Process(next) ==
    LET p == process_loaded_data(df, categorias)
    IN  /\ df' = p.df
        /\ categorias' = p.categorias
        /\ pc' = At(next, 1, 1, 1)
        /\ UNCHANGED <<fs, data_source, update, reply>>

\* the call that follows the assignment
normalize == pc.at = "assigned" /\ Process("processed")

\* a second call on the table the first one left
normalize_again == pc.at = "processed" /\ Process("reprocessed")

NormNext == normalize \/ normalize_again

NormSpec == NormInit /\ [][NormNext]_vars

Normalized == pc.at \in {"processed", "reprocessed"}

----------------------------------------------------------------------------
(* C11: renaming is first-writer-wins *)

In(c, cols) == \E i \in 1..Len(cols) : cols[i] = c

IsAlias(a) == \E k \in 1..Len(column_mapping) : column_mapping[k][1] = a

AliasRank(a) == CHOOSE k \in 1..Len(column_mapping) : column_mapping[k][1] = a

Canonical(a) == column_mapping[AliasRank(a)][2]

\* the alias a is the one to be renamed among the columns cols: its
\* canonical name is not a column, and no alias of the same canonical name
\* earlier in the alias table is a column
Wins(a, cols) ==
    /\ IsAlias(a)
    /\ ~In(Canonical(a), cols)
    /\ \A k \in 1..(AliasRank(a) - 1) :
          column_mapping[k][2] = Canonical(a) => ~In(column_mapping[k][1], cols)

FirstWriterWins(old, new) ==
    /\ Len(new) = Len(old)
    /\ \A i \in 1..Len(old) :
          new[i] = IF Wins(old[i], old) THEN Canonical(old[i]) ELSE old[i]
    /\ \A i, j \in 1..Len(new) : new[i] = new[j] => i = j

\* C11: a call of process_loaded_data renames exactly the alias columns
\* whose canonical name is not a column and that come first in alias-table
\* order among the aliases of that name present; every other column,
\* canonical ones included, keeps its name and place, and no two columns of
\* the result have the same name.
C11_FirstWriterWins ==
    [][pc' # pc => FirstWriterWins(df.columns, df'.columns)]_vars

\* C11 witness: a normalized table where the canonical category column
\* stands beside the later alias 'tema', which kept its name
C11_Witness ==
    /\ Normalized
    /\ HasCol(df, "Categoria")
    /\ HasCol(df, "tema")
    /\ NRows(df) > 0

----------------------------------------------------------------------------
(* C12: process_loaded_data is idempotent *)

\* C12: a second call of process_loaded_data, on the table and the category
\* list the first call left, changes neither the rows (their labels and
\* cells) nor the column names nor the category list.
C12_Idempotent ==
    [][pc.at = "processed" => (df' = df /\ categorias' = categorias)]_vars

\* C12 witness: the second call has run on a table whose first call dropped
\* rows, renamed the term column and found categories
C12_Witness ==
    /\ pc.at = "reprocessed"
    /\ HasCol(df, "Chengyu [zh]")
    /\ NRows(df) > 0
    /\ NRows(df) < MinRows
    /\ categorias # <<General>>

----------------------------------------------------------------------------
(* C13: the category list after normalization *)

\* the distinct values other than NaN of the column c
Values(d, c) == {Cell(d, p, c) : p \in 1..NRows(d)} \ {NaN}

ListSet(l) == {l[i] : i \in 1..Len(l)}

NoRepeat(l) == \A i, j \in 1..Len(l) : l[i] = l[j] => i = j

\* the category column of the table d: the first name of categoria_cols
\* that is a column (some name is)
CategoryField(d) ==
    categoria_cols[CHOOSE k \in 1..Len(categoria_cols) :
                      /\ HasCol(d, categoria_cols[k])
                      /\ \A j \in 1..(k - 1) : ~HasCol(d, categoria_cols[j])]

HasCategoryField(d) == \E k \in 1..Len(categoria_cols) : HasCol(d, categoria_cols[k])

\* C13 as stated: after normalization the categories are exactly the
\* distinct non-empty values of the category column, the list is the single
\* category General when the table has no category column, and it is never
\* empty.
C13_CategorySet ==
    Normalized =>
        /\ categorias # <<>>
        /\ IF HasCategoryField(df)
           THEN ListSet(categorias) = Values(df, CategoryField(df))
           ELSE categorias = <<General>>

\* C13: after normalization the category list is never empty and repeats no
\* category; it holds the distinct non-empty values of the first column
\* present among Categoria, Category, Categori'a, Tema, and it is the
\* single category General when none of these columns is present or the one
\* found has no non-empty value.
C13_CategorySetOrDefault ==
    Normalized =>
        /\ categorias # <<>>
        /\ NoRepeat(categorias)
        /\ IF HasCategoryField(df) /\ Values(df, CategoryField(df)) # {}
           THEN ListSet(categorias) = Values(df, CategoryField(df))
           ELSE categorias = <<General>>

\* C13 witness: a normalized table with records whose category column has
\* no value at all; the list is the default
C13_Witness ==
    /\ Normalized
    /\ NRows(df) > 0
    /\ HasCol(df, "Categoria")
    /\ Values(df, "Categoria") = {}
    /\ categorias = <<General>>

----------------------------------------------------------------------------
(* C14: every button of the category menu leads to a record *)

\* C14: when the callback data of a button of the category menu built for
\* the loaded table is handled, the reply is a record of that button's
\* category: never the empty-category message, never the error message.
C14_MenuBrowsable ==
    (pc = Serving /\ update.cmd = "cat") =>
        \A i \in 1..Len(categories_keyboard(categorias)) :
            categories_keyboard(categorias)[i].callback_data = update.data =>
                /\ reply.kind = "category"
                /\ reply.category = categories_keyboard(categorias)[i].text
                /\ HasCol(df, "Categoria")
                /\ reply.row.values[ColPos(df, "Categoria")]
                       = categories_keyboard(categorias)[i].text

=============================================================================
